---- MODULE Spec2Model ----
(***************************************************************************)
(* Model of the two PostgreSQL schema exporters of the repository:         *)
(*   api/doc/script/export_db_ddl.py     (catalog introspection -> DDL)    *)
(*   api/doc/script/db/export_schema.py  (pg_dump wrapper)                 *)
(* Text is modelled by TLA+ strings: \o concatenates, Len and SubSeq read  *)
(* characters.  An optional value (SQL NULL / Python None) is the empty    *)
(* sequence <<>>, a present value v is the one-element sequence <<v>>.     *)
(***************************************************************************)
EXTENDS Integers, Sequences, FiniteSets, TLC

(* ------------------------------ bounds --------------------------------- *)
\* most tables a modelled schema holds
MaxTables == 2
\* latest instant of the wall clock that datetime.now() may read
MaxClock == 2
\* most columns of a table handed to the DDL builder
MaxCols == 3
\* most foreign-key rows of a table handed to the DDL builder
MaxFks == 2
\* largest status os.system may report for the pg_dump command
MaxStatus == 40

(* --------------------------- Python helpers ---------------------------- *)
None == <<>>
Some(v) == <<v>>
Val(o) == o[1]

\* truth value of an optional integer: None and 0 are false
TruthyInt(o) == o # <<>> /\ o[1] # 0
\* truth value of an optional string: None and "" are false
TruthyStr(o) == o # <<>> /\ o[1] # ""

\* sep.join(seq) for a sequence of strings
RECURSIVE Join(_, _)
Join(seq, sep) ==
    IF Len(seq) = 0 THEN ""
    ELSE IF Len(seq) = 1 THEN seq[1]
    ELSE seq[1] \o sep \o Join(Tail(seq), sep)

\* seq[:stop] with Python's slice rules (negative stop counts from the end)
PySliceTo(seq, stop) ==
    LET n == Len(seq)
        e == IF stop < 0 THEN (IF n + stop < 0 THEN 0 ELSE n + stop)
             ELSE (IF stop > n THEN n ELSE stop)
    IN  SubSeq(seq, 1, e)

\* seq[start:] with Python's slice rules (negative start counts from the end)
PySliceFrom(seq, start) ==
    LET n == Len(seq)
        b == IF start < 0 THEN (IF n + start < 0 THEN 0 ELSE n + start)
             ELSE (IF start > n THEN n ELSE start)
    IN  SubSeq(seq, b + 1, n)

UpperChar(c) ==
    CASE c = "a" -> "A" [] c = "b" -> "B" [] c = "c" -> "C" [] c = "d" -> "D"
      [] c = "e" -> "E" [] c = "f" -> "F" [] c = "g" -> "G" [] c = "h" -> "H"
      [] c = "i" -> "I" [] c = "j" -> "J" [] c = "k" -> "K" [] c = "l" -> "L"
      [] c = "m" -> "M" [] c = "n" -> "N" [] c = "o" -> "O" [] c = "p" -> "P"
      [] c = "q" -> "Q" [] c = "r" -> "R" [] c = "s" -> "S" [] c = "t" -> "T"
      [] c = "u" -> "U" [] c = "v" -> "V" [] c = "w" -> "W" [] c = "x" -> "X"
      [] c = "y" -> "Y" [] c = "z" -> "Z" [] OTHER -> c

\* str.upper()
RECURSIVE Upper(_)
Upper(s) ==
    IF Len(s) = 0 THEN ""
    ELSE UpperChar(SubSeq(s, 1, 1)) \o Upper(SubSeq(s, 2, Len(s)))

\* all orders in which the rows of a set can be returned
Orderings(S) ==
    { f \in [1..Cardinality(S) -> S] : \A i, j \in 1..Cardinality(S) : f[i] = f[j] => i = j }

(* ------------------------ get_table_ddl (pure part) -------------------- *)
Col(name, type, len, prec, scale, nullable, default) ==
    [ column_name |-> name, data_type |-> type,
      character_maximum_length |-> len, numeric_precision |-> prec,
      numeric_scale |-> scale, is_nullable |-> nullable, column_default |-> default ]

\* data_type 'character varying'
VarcharType(char_max_len) ==
    IF TruthyInt(char_max_len)
    THEN " VARCHAR(" \o ToString(Val(char_max_len)) \o ")"
    ELSE " VARCHAR"

\* data_type 'character'
CharType(char_max_len) ==
    IF TruthyInt(char_max_len)
    THEN " CHAR(" \o ToString(Val(char_max_len)) \o ")"
    ELSE " CHAR"

NumericType_ignoring_scale(num_precision, num_scale) ==
    IF TruthyInt(num_precision)
    THEN " NUMERIC(" \o ToString(Val(num_precision)) \o ")"
    ELSE " NUMERIC"

\* data_type 'numeric'
NumericType(num_precision, num_scale) ==
    IF TruthyInt(num_precision) /\ TruthyInt(num_scale)
    THEN " NUMERIC(" \o ToString(Val(num_precision)) \o ","
                     \o ToString(Val(num_scale)) \o ")"
    ELSE IF TruthyInt(num_precision)
    THEN " NUMERIC(" \o ToString(Val(num_precision)) \o ")"
    ELSE " NUMERIC"

OtherType_not_uppercased(data_type) == " " \o data_type

\* any data_type the chain of comparisons does not name
OtherType(data_type) == " " \o Upper(data_type)

\* the SQL type text appended to the column definition
SqlType(col) ==
    LET data_type == col.data_type
    IN  IF data_type = "character varying" THEN VarcharType(col.character_maximum_length)
        ELSE IF data_type = "character" THEN CharType(col.character_maximum_length)
        ELSE IF data_type = "numeric"
             THEN NumericType(col.numeric_precision, col.numeric_scale)
        ELSE IF data_type = "integer" THEN " INTEGER"
        ELSE IF data_type = "bigint" THEN " BIGINT"
        ELSE IF data_type = "smallint" THEN " SMALLINT"
        ELSE IF data_type = "boolean" THEN " BOOLEAN"
        ELSE IF data_type = "date" THEN " DATE"
        ELSE IF data_type = "timestamp without time zone" THEN " TIMESTAMP"
        ELSE IF data_type = "timestamp with time zone" THEN " TIMESTAMPTZ"
        ELSE IF data_type = "text" THEN " TEXT"
        ELSE IF data_type = "json" THEN " JSON"
        ELSE IF data_type = "jsonb" THEN " JSONB"
        ELSE OtherType(data_type)

\* one column's definition line
ColumnDef(col) ==
    "    " \o col.column_name
           \o SqlType(col)
           \o (IF col.is_nullable = "NO" THEN " NOT NULL" ELSE "")
           \o (IF TruthyStr(col.column_default)
               THEN " DEFAULT " \o Val(col.column_default) ELSE "")

ColumnDefinitions(cols) == [ i \in 1..Len(cols) |-> ColumnDef(cols[i]) ]

PkConstraint(pks) == "    PRIMARY KEY (" \o Join(pks, ", ") \o ")"

\* fk = <<column, foreign table, foreign column, constraint name>>
FkConstraint(fk) ==
    "    CONSTRAINT " \o fk[4] \o " FOREIGN KEY (" \o fk[1] \o ") REFERENCES "
                      \o fk[2] \o "(" \o fk[3] \o ")"

\* the list ddl_lines just before the join
DdlLines(table_name, col_defs, pks, fks) ==
    <<"CREATE TABLE " \o table_name \o " (">>
        \o col_defs
        \o (IF Len(pks) > 0 THEN <<PkConstraint(pks)>> ELSE <<>>)
        \o [ i \in 1..Len(fks) |-> FkConstraint(fks[i]) ]

\* the text get_table_ddl returns, from the list ddl_lines
JoinDdl(ddl_lines, fks) ==
    LET head == Join(PySliceTo(ddl_lines, IF Len(fks) > 0 THEN 0 - Len(fks) ELSE 0), ",\n")
        body == IF Len(fks) > 0
                THEN head \o ",\n" \o Join(PySliceFrom(ddl_lines, 0 - Len(fks)), ",\n")
                ELSE head
    IN  body \o "\n);"

\* get_indexes_ddl: each index definition, terminated with ";"
IndexDdls(idx) == [ i \in 1..Len(idx) |-> idx[i][2] \o ";" ]

(* ----------------------------- the catalog ----------------------------- *)
\* the base tables a schema may hold, in the order ORDER BY table_name gives
TableNames == <<"accounts", "audit_log", "orders", "users">>

Table(cols, pks, fks, idx) ==
    [ columns |-> cols, primary_keys |-> pks, foreign_keys |-> fks, indexes |-> idx ]

Catalog ==
    [ n \in 1..Len(TableNames) |->
        CASE n = 1 ->
            Table(<< Col("id", "bigint", None, Some(64), Some(0), "NO", None),
                     Col("balance", "numeric", None, Some(12), Some(2), "NO", Some("0")) >>,
                  <<"id">>, {}, {})
          [] n = 2 ->
            Table(<<>>, <<>>, {}, {})
          [] n = 3 ->
            Table(<< Col("id", "integer", None, Some(32), Some(0), "NO", None),
                     Col("user_id", "integer", None, Some(32), Some(0), "NO", None),
                     Col("account_id", "bigint", None, Some(64), Some(0), "YES", None) >>,
                  <<"id">>,
                  { <<"user_id", "users", "id", "fk_orders_user">>,
                    <<"account_id", "accounts", "id", "fk_orders_account">> },
                  { <<"idx_orders_user",
                      "CREATE INDEX idx_orders_user ON public.orders USING btree (user_id)">>,
                    <<"idx_orders_account",
                      "CREATE INDEX idx_orders_account ON public.orders USING btree (account_id)">> })
          [] OTHER ->
            Table(<< Col("id", "integer", None, Some(32), Some(0), "NO", None),
                     Col("name", "character varying", Some(50), None, None, "YES", None),
                     Col("created_at", "timestamp with time zone", None, None, None,
                         "YES", Some("now()")) >>,
                  <<"id">>, {},
                  { <<"idx_users_name",
                      "CREATE INDEX idx_users_name ON public.users USING btree (name)">> }) ]

\* the schemas: every choice of at most MaxTables of the tables
Schemas == { S \in SUBSET (1..Len(TableNames)) : Cardinality(S) <= MaxTables }

\* the names of the tables of schema S, ORDER BY table_name
RECURSIVE SortedNames(_, _)
SortedNames(S, n) ==
    IF n > Len(TableNames) THEN <<>>
    ELSE (IF n \in S THEN <<TableNames[n]>> ELSE <<>>) \o SortedNames(S, n + 1)

TableIndex(name) == CHOOSE n \in 1..Len(TableNames) : TableNames[n] = name

\* datetime.now().strftime('%Y-%m-%d %H:%M:%S') at instant t of the clock
Strftime(t) == "2024-01-01 00:00:0" \o ToString(t)

database == "investment_research"
output_path == "schema.sql"

(* ------------------------------- state --------------------------------- *)
VARIABLES
    db,                 \* the schema of the database: a set of table numbers
    output_file,        \* whether --output-file was given
    file,               \* the output file: None when absent, else its content
    clock,              \* the wall clock
    pc,                 \* position of export_db_ddl.py
    conn, cursor,       \* "none", "open" or "closed"
    tables, ti,         \* the listed tables and the loop position in them
    columns, primary_keys, foreign_keys,   \* rows fetched by get_table_ddl
    column_definitions, \* the list column_definitions of get_table_ddl
    table_ddl,          \* what get_table_ddl returned: None or the text
    ddl_content,        \* the list of document lines
    stdout,             \* the lines printed so far
    queries,            \* the statements executed so far: <<kind, table>>
    exc,                \* the exception raised: kind and message
    result,             \* the value export_database_ddl returned
    exit_code,          \* the process exit code, None while running
    rerun,              \* whether this is the second invocation
    prev_content,       \* the document lines of the first invocation
    pg_pc,              \* position of export_schema.py
    pg_status,          \* what os.system returned
    pg_success,         \* what export_schema returned
    pg_exit_code        \* exit code of export_schema.py

ddlVars == << db, output_file, file, clock, pc, conn, cursor, tables, ti, columns,
              primary_keys, foreign_keys, column_definitions, table_ddl, ddl_content,
              stdout, queries, exc, result, exit_code, rerun, prev_content >>
pgVars == << pg_pc, pg_status, pg_success, pg_exit_code >>
vars == << ddlVars, pgVars >>

NoExc == [ kind |-> "none", msg |-> "" ]
DbError(m) == [ kind |-> "psycopg2.Error", msg |-> m ]
OtherError(m) == [ kind |-> "Exception", msg |-> m ]

table_name == tables[ti]

\* the state of a fresh interpreter, before main() runs
Fresh ==
    /\ pc = "start"
    /\ conn = "none" /\ cursor = "none"
    /\ tables = <<>> /\ ti = 0
    /\ columns = <<>> /\ primary_keys = <<>> /\ foreign_keys = <<>>
    /\ column_definitions = <<>>
    /\ table_ddl = None
    /\ ddl_content = <<>>
    /\ stdout = <<>>
    /\ queries = <<>>
    /\ exc = NoExc
    /\ result = None
    /\ exit_code = None

PgIdle ==
    /\ pg_pc = "idle" /\ pg_status = None /\ pg_success = None /\ pg_exit_code = None

Init ==
    /\ db \in Schemas
    /\ output_file \in BOOLEAN
    /\ file \in { None, Some("-- old") }
    /\ clock = 1
    /\ rerun = FALSE
    /\ prev_content = <<>>
    /\ Fresh
    /\ PgIdle

(* ------------------------- export_db_ddl.py ---------------------------- *)
Header(t, tbls) ==
    << "-- Database DDL Export",
       "-- Database: " \o database,
       "-- Export Date: " \o Strftime(t),
       "-- Total Tables: " \o ToString(Len(tbls)),
       "" >>

Banner(name) ==
    << "-- Table: " \o name,
       "--------------------------------------------------" >>

ProgressLine(name) == "Exporting table: " \o name

NoTables_never(tbls) == FALSE

\* `if not tables`: the early return of export_database_ddl
NoTables(tbls) == Len(tbls) = 0

ExitCodeOnError_only_database(kind) == IF kind = "psycopg2.Error" THEN 1 ELSE 0

\* the exit status the except clauses of export_database_ddl pass to sys.exit
ExitCodeOnError(kind) == 1

AfterTable_progress_once(i, tbls) == IF i < Len(tbls) THEN "q_columns" ELSE "write"

\* where the for loop over tables goes once table number i is finished
AfterTable(i, tbls) == IF i < Len(tbls) THEN "progress" ELSE "write"

Raise(e) == pc' = "except" /\ exc' = e

\* psycopg2.connect and conn.cursor
Connect ==
    /\ pc = "start"
    /\ \/ /\ conn' = "open" /\ cursor' = "open"
          /\ pc' = "list"
          /\ UNCHANGED exc
       \/ /\ Raise(DbError("could not connect to server"))
          /\ UNCHANGED << conn, cursor >>
    /\ UNCHANGED << db, output_file, file, clock, tables, ti, columns, primary_keys,
                    foreign_keys, column_definitions, table_ddl, ddl_content, stdout,
                    queries, result, exit_code, rerun, prev_content >>
    /\ UNCHANGED pgVars

\* the table listing, the early return and the document header
ListTables ==
    /\ pc = "list"
    /\ queries' = Append(queries, <<"tables", "">>)
    /\ \/ /\ Raise(DbError("query failed"))
          /\ UNCHANGED << tables, ti, ddl_content, stdout, clock >>
       \/ /\ tables' = SortedNames(db, 1)
          /\ IF NoTables(tables')
             THEN /\ stdout' = Append(stdout, "No tables found in the database.")
                  /\ pc' = "returned"
                  /\ UNCHANGED << ti, ddl_content, clock >>
             ELSE /\ \E t \in clock..MaxClock :
                        /\ clock' = t
                        /\ ddl_content' = Header(t, tables')
                  /\ ti' = 1
                  /\ pc' = IF Len(tables') >= 1 THEN "progress" ELSE "write"
                  /\ UNCHANGED stdout
          /\ UNCHANGED exc
    /\ result' = None
    /\ UNCHANGED << db, output_file, file, conn, cursor, columns, primary_keys,
                    foreign_keys, column_definitions, table_ddl, exit_code, rerun,
                    prev_content >>
    /\ UNCHANGED pgVars

\* top of the loop body: the progress line and the table banner
Progress ==
    /\ pc = "progress"
    /\ stdout' = Append(stdout, ProgressLine(table_name))
    /\ ddl_content' = ddl_content \o Banner(table_name)
    /\ columns' = <<>> /\ primary_keys' = <<>> /\ foreign_keys' = <<>>
    /\ column_definitions' = <<>>
    /\ table_ddl' = None
    /\ pc' = "q_columns"
    /\ UNCHANGED << db, output_file, file, clock, conn, cursor, tables, ti, queries,
                    exc, result, exit_code, rerun, prev_content >>
    /\ UNCHANGED pgVars

\* get_table_ddl: the column query, and the return of None for no columns
QueryColumns ==
    /\ pc = "q_columns"
    /\ queries' = Append(queries, <<"columns", table_name>>)
    /\ \/ /\ Raise(DbError("query failed"))
          /\ UNCHANGED << columns, table_ddl >>
       \/ /\ columns' = Catalog[TableIndex(table_name)].columns
          /\ table_ddl' = None
          /\ pc' = IF Len(columns') = 0 THEN "q_indexes" ELSE "q_pk"
          /\ UNCHANGED exc
    /\ UNCHANGED << db, output_file, file, clock, conn, cursor, tables, ti, primary_keys,
                    foreign_keys, column_definitions, ddl_content, stdout, result,
                    exit_code, rerun, prev_content >>
    /\ UNCHANGED pgVars

\* get_table_ddl: the primary-key query (ORDER BY kcu.ordinal_position)
QueryPrimaryKey ==
    /\ pc = "q_pk"
    /\ queries' = Append(queries, <<"primary_key", table_name>>)
    /\ \/ /\ Raise(DbError("query failed"))
          /\ UNCHANGED primary_keys
       \/ /\ primary_keys' = Catalog[TableIndex(table_name)].primary_keys
          /\ pc' = "q_fk"
          /\ UNCHANGED exc
    /\ UNCHANGED << db, output_file, file, clock, conn, cursor, tables, ti, columns,
                    foreign_keys, column_definitions, table_ddl, ddl_content, stdout,
                    result, exit_code, rerun, prev_content >>
    /\ UNCHANGED pgVars

\* get_table_ddl: the foreign-key query; no ORDER BY, so any row order
QueryForeignKeys ==
    /\ pc = "q_fk"
    /\ queries' = Append(queries, <<"foreign_keys", table_name>>)
    /\ \/ /\ Raise(DbError("query failed"))
          /\ UNCHANGED foreign_keys
       \/ /\ foreign_keys' \in Orderings(Catalog[TableIndex(table_name)].foreign_keys)
          /\ pc' = "build"
          /\ UNCHANGED exc
    /\ UNCHANGED << db, output_file, file, clock, conn, cursor, tables, ti, columns,
                    primary_keys, column_definitions, table_ddl, ddl_content, stdout,
                    result, exit_code, rerun, prev_content >>
    /\ UNCHANGED pgVars

\* get_table_ddl: the loop that renders every column
BuildColumns ==
    /\ pc = "build"
    /\ column_definitions' = ColumnDefinitions(columns)
    /\ pc' = "join"
    /\ UNCHANGED << db, output_file, file, clock, conn, cursor, tables, ti, columns,
                    primary_keys, foreign_keys, table_ddl, ddl_content, stdout, queries,
                    exc, result, exit_code, rerun, prev_content >>
    /\ UNCHANGED pgVars

\* get_table_ddl: constraints, join and return; the caller appends the text
JoinTableDdl ==
    /\ pc = "join"
    /\ LET ddl == JoinDdl(DdlLines(table_name, column_definitions, primary_keys,
                                   foreign_keys), foreign_keys)
       IN  /\ table_ddl' = Some(ddl)
           /\ ddl_content' = IF ddl # "" THEN Append(ddl_content, ddl) ELSE ddl_content
    /\ pc' = "q_indexes"
    /\ UNCHANGED << db, output_file, file, clock, conn, cursor, tables, ti, columns,
                    primary_keys, foreign_keys, column_definitions, stdout, queries,
                    exc, result, exit_code, rerun, prev_content >>
    /\ UNCHANGED pgVars

\* get_indexes_ddl and the end of the loop body.  The statement holds a
\* literal % (LIKE '%_pkey') beside its parameters, so besides a database
\* error the driver's parameter formatting may reject it with a ValueError.
QueryIndexes ==
    /\ pc = "q_indexes"
    /\ queries' = Append(queries, <<"indexes", table_name>>)
    /\ \/ /\ Raise(DbError("query failed"))
          /\ UNCHANGED << ddl_content, ti >>
       \/ /\ Raise(OtherError("unsupported format character"))
          /\ UNCHANGED << ddl_content, ti >>
       \/ /\ \E idx \in Orderings(Catalog[TableIndex(table_name)].indexes) :
                ddl_content' =
                    ddl_content
                    \o (IF Len(idx) > 0
                        THEN << "", "-- Indexes for " \o table_name >> \o IndexDdls(idx)
                        ELSE <<>>)
                    \o << "" >>
          /\ ti' = ti + 1
          /\ pc' = AfterTable(ti, tables)
          /\ UNCHANGED exc
    /\ UNCHANGED << db, output_file, file, clock, conn, cursor, tables, columns,
                    primary_keys, foreign_keys, column_definitions, table_ddl, stdout,
                    result, exit_code, rerun, prev_content >>
    /\ UNCHANGED pgVars

output_text == Join(ddl_content, "\n")

\* the document goes to stdout, or the output file is opened for writing
WriteOutput ==
    /\ pc = "write"
    /\ IF output_file
       THEN \/ /\ file' = Some("")
               /\ pc' = "fwrite"
               /\ UNCHANGED << exc, stdout >>
            \/ /\ Raise(OtherError("cannot open " \o output_path))
               /\ UNCHANGED << file, stdout >>
       ELSE /\ stdout' = Append(stdout, output_text)
            /\ pc' = "close"
            /\ UNCHANGED << exc, file >>
    /\ UNCHANGED << db, output_file, clock, conn, cursor, tables, ti, columns,
                    primary_keys, foreign_keys, column_definitions, table_ddl,
                    ddl_content, queries, result, exit_code, rerun, prev_content >>
    /\ UNCHANGED pgVars

\* f.write(output_text) and the message that follows
WriteFile ==
    /\ pc = "fwrite"
    /\ \/ /\ file' = Some(output_text)
          /\ stdout' = Append(stdout, "DDL exported to: " \o output_path)
          /\ pc' = "close"
          /\ UNCHANGED exc
       \/ /\ Raise(OtherError("write failed"))
          /\ UNCHANGED << file, stdout >>
    /\ UNCHANGED << db, output_file, clock, conn, cursor, tables, ti, columns,
                    primary_keys, foreign_keys, column_definitions, table_ddl,
                    ddl_content, queries, result, exit_code, rerun, prev_content >>
    /\ UNCHANGED pgVars

\* cursor.close(), conn.close(), the success message, the implicit return;
\* closing may itself raise a database error
CloseAndReport ==
    /\ pc = "close"
    /\ \/ /\ cursor' = "closed" /\ conn' = "closed"
          /\ stdout' = Append(stdout, "Successfully exported DDL for "
                                       \o ToString(Len(tables)) \o " tables.")
          /\ pc' = "returned"
          /\ UNCHANGED exc
       \/ /\ Raise(DbError("could not close"))
          /\ UNCHANGED << cursor, conn, stdout >>
    /\ result' = None
    /\ UNCHANGED << db, output_file, file, clock, tables, ti, columns, primary_keys,
                    foreign_keys, column_definitions, table_ddl, ddl_content, queries,
                    exit_code, rerun, prev_content >>
    /\ UNCHANGED pgVars

HandleError_flushes_document ==
    /\ pc = "except"
    /\ stdout' = Append(stdout, (IF exc.kind = "psycopg2.Error"
                                 THEN "Database error: " ELSE "Error: ") \o exc.msg)
    /\ exit_code' = Some(ExitCodeOnError(exc.kind))
    /\ file' = IF output_file THEN Some(Join(ddl_content, "\n")) ELSE file
    /\ pc' = "exited"
    /\ UNCHANGED << db, output_file, clock, conn, cursor, tables, ti, columns,
                    primary_keys, foreign_keys, column_definitions, table_ddl,
                    ddl_content, queries, exc, result, rerun, prev_content >>
    /\ UNCHANGED pgVars

\* the two except clauses: print with a prefix, sys.exit
HandleError ==
    /\ pc = "except"
    /\ stdout' = Append(stdout, (IF exc.kind = "psycopg2.Error"
                                 THEN "Database error: " ELSE "Error: ") \o exc.msg)
    /\ exit_code' = Some(ExitCodeOnError(exc.kind))
    /\ pc' = "exited"
    /\ UNCHANGED << db, output_file, file, clock, conn, cursor, tables, ti, columns,
                    primary_keys, foreign_keys, column_definitions, table_ddl,
                    ddl_content, queries, exc, result, rerun, prev_content >>
    /\ UNCHANGED pgVars

\* export_database_ddl returned to main, main returns, the interpreter exits
MainReturns ==
    /\ pc = "returned"
    /\ exit_code' = Some(0)
    /\ pc' = "exited"
    /\ UNCHANGED << db, output_file, file, clock, conn, cursor, tables, ti, columns,
                    primary_keys, foreign_keys, column_definitions, table_ddl,
                    ddl_content, stdout, queries, exc, result, rerun, prev_content >>
    /\ UNCHANGED pgVars

\* the operator runs the script once more against the unchanged database
Rerun ==
    /\ pc = "exited"
    /\ ~rerun
    /\ exit_code = Some(0)
    /\ ddl_content # <<>>
    /\ rerun' = TRUE
    /\ prev_content' = ddl_content
    /\ pc' = "start"
    /\ conn' = "none" /\ cursor' = "none"
    /\ tables' = <<>> /\ ti' = 0
    /\ columns' = <<>> /\ primary_keys' = <<>> /\ foreign_keys' = <<>>
    /\ column_definitions' = <<>>
    /\ table_ddl' = None
    /\ ddl_content' = <<>>
    /\ stdout' = <<>>
    /\ queries' = <<>>
    /\ exc' = NoExc
    /\ result' = None
    /\ exit_code' = None
    /\ UNCHANGED << db, output_file, file, clock >>
    /\ UNCHANGED pgVars

Next ==
    \/ Connect
    \/ ListTables
    \/ Progress
    \/ QueryColumns
    \/ QueryPrimaryKey
    \/ QueryForeignKeys
    \/ BuildColumns
    \/ JoinTableDdl
    \/ QueryIndexes
    \/ WriteOutput
    \/ WriteFile
    \/ CloseAndReport
    \/ HandleError
    \/ MainReturns
    \/ Rerun

Spec == Init /\ [][Next]_vars

(* ---------------- get_table_ddl on a wider range of tables -------------- *)
\* data_type values of information_schema.columns: the thirteen the mapping
\* names and four it does not
TypeNames ==
    { "character varying", "character", "numeric", "integer", "bigint", "smallint",
      "boolean", "date", "timestamp without time zone", "timestamp with time zone",
      "text", "json", "jsonb",
      "uuid", "bytea", "double precision", "USER-DEFINED" }

\* one column of every type with every presence of length, precision, scale,
\* nullability and default
TypedColumns ==
    { Col("c", t, l, p, s, n, d) :
        t \in TypeNames, l \in { None, Some(50) }, p \in { None, Some(10) },
        s \in { None, Some(0), Some(2) }, n \in { "YES", "NO" },
        d \in { None, Some("now()") } }

SampleColumns ==
    { Col("id", "integer", None, Some(32), Some(0), "NO", None),
      Col("name", "character varying", Some(50), None, None, "YES", None),
      Col("created_at", "timestamp with time zone", None, None, None, "YES", Some("now()")),
      Col("email", "text", None, None, None, "NO", None) }

SampleFks ==
    { <<"id", "accounts", "id", "fk_a">>,
      <<"name", "people", "name", "fk_b">>,
      <<"email", "mail", "addr", "fk_c">> }

\* the sequences without repetition over S of length lo..hi
SeqsOf(S, lo, hi) ==
    UNION { { f \in [1..n -> S] : \A i, j \in 1..n : f[i] = f[j] => i = j } : n \in lo..hi }

ColumnNames(cols) == { cols[i].column_name : i \in 1..Len(cols) }

\* what the three queries of get_table_ddl may have fetched for a table
RenderInputs ==
    { [ columns |-> <<c>>, primary_keys |-> pk, foreign_keys |-> <<>> ] :
        c \in TypedColumns, pk \in { <<>> } }
    \cup
    { r \in [ columns : SeqsOf(SampleColumns, 1, MaxCols),
              primary_keys : SeqsOf({ "id", "name" }, 0, 2),
              foreign_keys : SeqsOf(SampleFks, 0, MaxFks) ] :
        /\ \A k \in 1..Len(r.primary_keys) : r.primary_keys[k] \in ColumnNames(r.columns)
        /\ \A k \in 1..Len(r.foreign_keys) : r.foreign_keys[k][1] \in ColumnNames(r.columns) }

\* export_database_ddl inside get_table_ddl("users"), the three queries done
RenderInit ==
    /\ db = {4}
    /\ output_file = FALSE
    /\ file = None
    /\ clock = 1
    /\ rerun = FALSE
    /\ prev_content = <<>>
    /\ conn = "open" /\ cursor = "open"
    /\ tables = <<"users">> /\ ti = 1
    /\ \E r \in RenderInputs :
          /\ columns = r.columns
          /\ primary_keys = r.primary_keys
          /\ foreign_keys = r.foreign_keys
    /\ column_definitions = <<>>
    /\ table_ddl = None
    /\ ddl_content = Header(1, <<"users">>) \o Banner("users")
    /\ stdout = << ProgressLine("users") >>
    /\ queries = << <<"tables", "">>, <<"columns", "users">>,
                    <<"primary_key", "users">>, <<"foreign_keys", "users">> >>
    /\ exc = NoExc
    /\ result = None
    /\ exit_code = None
    /\ pc = "build"
    /\ PgIdle

RenderNext ==
    \/ BuildColumns
    \/ JoinTableDdl

SpecRender == RenderInit /\ [][RenderNext]_vars

(* --------------------------- export_schema.py -------------------------- *)
\* main: the connection settings and the banner, then the call
PgMain ==
    /\ pg_pc = "main"
    /\ pg_pc' = "chdir"
    /\ UNCHANGED << pg_status, pg_success, pg_exit_code >>
    /\ UNCHANGED ddlVars

\* export_schema: os.chdir to the output directory; a failure is caught
PgChdir ==
    /\ pg_pc = "chdir"
    /\ \/ /\ pg_pc' = "system"
          /\ UNCHANGED pg_success
       \/ /\ pg_success' = Some(FALSE)
          /\ pg_pc' = "returned"
    /\ UNCHANGED << pg_status, pg_exit_code >>
    /\ UNCHANGED ddlVars

\* export_schema: os.system runs pg_dump and returns its status
PgSystem ==
    /\ pg_pc = "system"
    /\ \E s \in 0..MaxStatus : pg_status' = Some(s)
    /\ pg_pc' = "return"
    /\ UNCHANGED << pg_success, pg_exit_code >>
    /\ UNCHANGED ddlVars

\* export_schema: return True
PgReturn ==
    /\ pg_pc = "return"
    /\ pg_success' = Some(TRUE)
    /\ pg_pc' = "returned"
    /\ UNCHANGED << pg_status, pg_exit_code >>
    /\ UNCHANGED ddlVars

\* main: sys.exit(0) on success, sys.exit(1) otherwise
PgExit ==
    /\ pg_pc = "returned"
    /\ pg_exit_code' = Some(IF Val(pg_success) THEN 0 ELSE 1)
    /\ pg_pc' = "exited"
    /\ UNCHANGED << pg_status, pg_success >>
    /\ UNCHANGED ddlVars

PgInit ==
    /\ db = {}
    /\ output_file = FALSE
    /\ file = None
    /\ clock = 1
    /\ rerun = FALSE
    /\ prev_content = <<>>
    /\ Fresh
    /\ pg_pc = "main" /\ pg_status = None /\ pg_success = None /\ pg_exit_code = None

PgNext ==
    \/ PgMain
    \/ PgChdir
    \/ PgSystem
    \/ PgReturn
    \/ PgExit

SpecPgDump == PgInit /\ [][PgNext]_vars

(* ======================= properties: get_table_ddl ===================== *)
\* get_table_ddl has returned a text for the table at hand
Rendered == pc = "q_indexes" /\ table_ddl # None

\* the statement as the specification lays it out: the opening line, the
\* sibling lines separated by ",\n", the closing line
Statement(name, siblings) ==
    "CREATE TABLE " \o name \o " (" \o "\n" \o Join(siblings, ",\n") \o "\n" \o ");"

Siblings ==
    column_definitions
        \o (IF Len(primary_keys) > 0
            THEN << "    PRIMARY KEY (" \o Join(primary_keys, ", ") \o ")" >> ELSE <<>>)
        \o [ i \in 1..Len(foreign_keys) |->
               "    CONSTRAINT " \o foreign_keys[i][4]
                   \o " FOREIGN KEY (" \o foreign_keys[i][1] \o ")"
                   \o " REFERENCES " \o foreign_keys[i][2] \o "(" \o foreign_keys[i][3] \o ")" ]

UsersScenario ==
    /\ table_name = "users"
    /\ Len(columns) = 3
    /\ columns[1].column_name = "id"
    /\ columns[2].column_name = "name"
    /\ columns[3].column_name = "created_at"
    /\ primary_keys = <<"id">>
    /\ foreign_keys = <<>>

UsersScenarioText ==
    "CREATE TABLE users (\n"
    \o "    id INTEGER NOT NULL,\n"
    \o "    name VARCHAR(50),\n"
    \o "    created_at TIMESTAMPTZ DEFAULT now(),\n"
    \o "    PRIMARY KEY (id)\n"
    \o ");"

\* C1: for every table with at least one column and no foreign key,
\* get_table_ddl returns the line `CREATE TABLE <name> (`, one line per column
\* in ordinal order, the PRIMARY KEY line when there is a primary key, and the
\* closing `);`; the users table of the scenario renders as its five-line text.
C1_NoForeignKeyStatement ==
    (Rendered /\ Len(columns) >= 1 /\ Len(foreign_keys) = 0) =>
        /\ Val(table_ddl) = Statement(table_name, Siblings)
        /\ UsersScenario => Val(table_ddl) = UsersScenarioText

\* C3: for every table with at least one foreign key, get_table_ddl returns the
\* opening line, then columns, primary key and foreign keys as sibling lines
\* with a comma between consecutive siblings and nowhere else, then `);`.
C3_ForeignKeyStatement ==
    (Rendered /\ Len(foreign_keys) >= 1) =>
        Val(table_ddl) = Statement(table_name, Siblings)

(* ----------------------- properties: column types ---------------------- *)
\* get_table_ddl has rendered the columns at hand
ColumnsRendered == pc \in { "join", "q_indexes" } /\ Len(column_definitions) = Len(columns)

\* the column line with type text T, nullability and default as rendered
ColumnLine(col, T) ==
    "    " \o col.column_name \o " " \o T
        \o (IF col.is_nullable = "NO" THEN " NOT NULL" ELSE "")
        \o (IF col.column_default # None /\ col.column_default # Some("")
            THEN " DEFAULT " \o col.column_default[1] ELSE "")

Parens(args) == "(" \o Join(args, ",") \o ")"

\* the type-mapping table of the specification: the tokens a column of the
\* type may render to
ListedTokens(col) ==
    LET t == col.data_type
        l == col.character_maximum_length
        p == col.numeric_precision
        s == col.numeric_scale
    IN  CASE t = "character varying" ->
               IF l = None THEN { "VARCHAR" } ELSE { "VARCHAR" \o Parens(<<ToString(l[1])>>) }
          [] t = "character" ->
               IF l = None THEN { "CHAR" } ELSE { "CHAR" \o Parens(<<ToString(l[1])>>) }
          [] t = "numeric" ->
               { "NUMERIC" }
               \cup (IF p # None THEN { "NUMERIC" \o Parens(<<ToString(p[1])>>) } ELSE {})
               \cup (IF p # None /\ s # None
                     THEN { "NUMERIC" \o Parens(<<ToString(p[1]), ToString(s[1])>>) } ELSE {})
          [] t = "integer" -> { "INTEGER" }
          [] t = "bigint" -> { "BIGINT" }
          [] t = "smallint" -> { "SMALLINT" }
          [] t = "boolean" -> { "BOOLEAN" }
          [] t = "date" -> { "DATE" }
          [] t = "timestamp without time zone" -> { "TIMESTAMP" }
          [] t = "timestamp with time zone" -> { "TIMESTAMPTZ" }
          [] t = "text" -> { "TEXT" }
          [] t = "json" -> { "JSON" }
          [] t = "jsonb" -> { "JSONB" }
          [] t = "uuid" -> { "UUID" }
          [] t = "bytea" -> { "BYTEA" }
          [] t = "double precision" -> { "DOUBLE PRECISION" }
          [] t = "USER-DEFINED" -> { "USER-DEFINED" }

\* C4: the type mapping is total and matches the table: every enumerated type
\* renders to its listed token, every other type to its upper-cased raw name
\* with no parameters, whatever length or precision the row carries.
C4_TypeMappingTotal ==
    ColumnsRendered =>
        \A i \in 1..Len(columns) :
            \E T \in ListedTokens(columns[i]) :
                column_definitions[i] = ColumnLine(columns[i], T)

\* a uuid column whose row carries a length and a precision rendered as UUID
C4_Witness ==
    /\ ColumnsRendered
    /\ Len(columns) = 1
    /\ columns[1].data_type = "uuid"
    /\ columns[1].character_maximum_length = Some(50)
    /\ columns[1].numeric_precision = Some(10)
    /\ columns[1].is_nullable = "YES"
    /\ columns[1].column_default = None
    /\ column_definitions = << "    c UUID" >>

\* the type text the claim gives a parametrised column, by presence alone
ByPresence(col) ==
    LET t == col.data_type
        l == col.character_maximum_length
        p == col.numeric_precision
        s == col.numeric_scale
    IN  CASE t = "numeric" ->
               IF p # None /\ s # None
               THEN "NUMERIC" \o Parens(<<ToString(p[1]), ToString(s[1])>>)
               ELSE IF p # None THEN "NUMERIC" \o Parens(<<ToString(p[1])>>)
               ELSE "NUMERIC"
          [] t = "character varying" ->
               IF l # None THEN "VARCHAR" \o Parens(<<ToString(l[1])>>) ELSE "VARCHAR"
          [] t = "character" ->
               IF l # None THEN "CHAR" \o Parens(<<ToString(l[1])>>) ELSE "CHAR"

\* the same, a scale of 0 counting as no scale
ByNonZeroScale(col) ==
    LET t == col.data_type
        l == col.character_maximum_length
        p == col.numeric_precision
        s == col.numeric_scale
    IN  CASE t = "numeric" ->
               IF p # None /\ s # None /\ s # Some(0)
               THEN "NUMERIC" \o Parens(<<ToString(p[1]), ToString(s[1])>>)
               ELSE IF p # None THEN "NUMERIC" \o Parens(<<ToString(p[1])>>)
               ELSE "NUMERIC"
          [] t = "character varying" ->
               IF l # None THEN "VARCHAR" \o Parens(<<ToString(l[1])>>) ELSE "VARCHAR"
          [] t = "character" ->
               IF l # None THEN "CHAR" \o Parens(<<ToString(l[1])>>) ELSE "CHAR"

Parametrised(col) == col.data_type \in { "numeric", "character varying", "character" }

\* C5 as claimed: NUMERIC(p,s) whenever precision and scale are both present,
\* NUMERIC(p) when only the precision is, NUMERIC when neither is; VARCHAR(n)
\* and CHAR(n) whenever a maximum length is present, the bare token otherwise.
C5_ByPresence ==
    ColumnsRendered =>
        \A i \in 1..Len(columns) :
            Parametrised(columns[i]) =>
                column_definitions[i] = ColumnLine(columns[i], ByPresence(columns[i]))

\* C5 as amended: NUMERIC(p,s) when precision and scale are both present and
\* the scale is not 0, NUMERIC(p) when the precision is present and the scale
\* is absent or 0, NUMERIC when the precision is absent; VARCHAR(n) and CHAR(n)
\* when a maximum length is present, the bare token otherwise.
C5_ByNonZeroScale ==
    ColumnsRendered =>
        \A i \in 1..Len(columns) :
            Parametrised(columns[i]) =>
                column_definitions[i] = ColumnLine(columns[i], ByNonZeroScale(columns[i]))

\* a numeric column with precision 10 and scale 0 rendered as NUMERIC(10)
C5_Witness ==
    /\ ColumnsRendered
    /\ Len(columns) = 1
    /\ columns[1].data_type = "numeric"
    /\ columns[1].numeric_precision = Some(10)
    /\ columns[1].numeric_scale = Some(0)
    /\ columns[1].is_nullable = "YES"
    /\ columns[1].column_default = None
    /\ column_definitions = << "    c NUMERIC(10)" >>

(* =================== properties: export_database_ddl ==================== *)
\* the run is over and no exception was raised in it
Completed == pc = "exited" /\ exc.kind = "none"

Lines(seq) == { seq[i] : i \in 1..Len(seq) }

\* the document reached its destination: the file, or stdout
DocumentWritten ==
    IF output_file THEN file = Some(output_text) ELSE output_text \in Lines(stdout)

\* C2 as claimed: with no base table the document is still produced, its
\* header saying `Total Tables: 0` and no table section following, and the
\* operation returns 0; in general it returns the number of tables exported.
C2_EmptySchemaDocument ==
    Completed =>
        /\ result = Some(Len(tables))
        /\ Len(tables) = 0 =>
              /\ "-- Total Tables: 0" \in Lines(ddl_content)
              /\ DocumentWritten

\* C2 as amended: with no base table export_database_ddl prints `No tables
\* found in the database.` and returns at once: no document is built, nothing
\* is written to the output file or printed besides that message, and the
\* process exits with code 0; the function returns no value (None), with
\* tables or without.
C2_EmptySchemaReturnsEarly ==
    Completed =>
        /\ result = None
        /\ Len(tables) = 0 =>
              /\ ddl_content = <<>>
              /\ stdout = << "No tables found in the database." >>
              /\ file \in { None, Some("-- old") }
              /\ exit_code = Some(0)

\* a run against a schema without tables listed them and ended
C2_Witness ==
    /\ Completed
    /\ db = {}
    /\ queries = << <<"tables", "">> >>
    /\ tables = <<>>
    /\ exit_code = Some(0)

\* the document lines with the `-- Export Date:` line blanked
WithoutExportDate(content) ==
    [ i \in 1..Len(content) |-> IF i = 3 THEN "-- Export Date:" ELSE content[i] ]

\* C6: two runs against the same unchanged database produce byte-identical
\* output except for the `-- Export Date:` line, whatever order the database
\* returns the rows of the queries without ORDER BY in.
C6_SameOutputTwice ==
    (rerun /\ Completed /\ ddl_content # <<>>) =>
        Join(WithoutExportDate(ddl_content), "\n")
            = Join(WithoutExportDate(prev_content), "\n")

\* C7: the process ends with exit code 0 exactly when the run completed
\* without error, and with exit code 1 whenever a database error or any other
\* error was raised at any step; until it ends there is no exit code.
C7_ExitCode ==
    /\ pc = "exited" =>
          /\ exit_code = Some(0) <=> exc.kind = "none"
          /\ exc.kind \in { "psycopg2.Error", "Exception" } => exit_code = Some(1)
    /\ pc # "exited" => exit_code = None

\* a run that failed to write the output file ended with exit code 1
C7_Witness ==
    /\ pc = "exited"
    /\ exc = OtherError("write failed")
    /\ exit_code = Some(1)
    /\ file = Some("")

\* C9: in every run that opened the connection, the connection and its cursor
\* are closed before the run ends, on every exit path.
C9_ConnectionClosed ==
    (pc = "exited" /\ conn # "none") => (conn = "closed" /\ cursor = "closed")

Rank(kind) ==
    CASE kind = "columns" -> 1
      [] kind = "primary_key" -> 2
      [] kind = "foreign_keys" -> 3
      [] kind = "indexes" -> 4
      [] OTHER -> 0

\* position of a table in the listing
Position(name) == CHOOSE k \in 1..Len(tables) : tables[k] = name

IsProgressLine(line) == Len(line) >= 17 /\ SubSeq(line, 1, 17) = "Exporting table: "

ProgressLines == SelectSeq(stdout, IsProgressLine)

\* C10: tables are processed one after another in the listed order: the
\* progress line of a table is printed before any of its queries, its queries
\* run in the order columns, primary key, foreign keys, indexes, no query of the
\* next table is issued before the index query of the current one, and when a
\* query fails the last progress line names the table being processed.
C10_Sequential ==
    /\ \A i \in 1..Len(ProgressLines) :
          i <= Len(tables) /\ ProgressLines[i] = "Exporting table: " \o tables[i]
    /\ \A i \in 1..Len(queries) :
          LET q == queries[i]
          IN  IF i = 1 THEN q = <<"tables", "">>
              ELSE /\ Rank(q[1]) > 0
                   /\ q[2] \in Lines(tables)
                   /\ Position(q[2]) <= Len(ProgressLines)
                   /\ LET b == queries[i - 1]
                      IN  IF q[1] = "columns"
                          THEN \/ i = 2 /\ Position(q[2]) = 1
                               \/ /\ b[1] = "indexes"
                                  /\ Position(q[2]) = Position(b[2]) + 1
                          ELSE b[2] = q[2] /\ Rank(b[1]) < Rank(q[1])
    /\ (exc.kind # "none" /\ Len(queries) > 1) =>
          ProgressLines[Len(ProgressLines)]
              = "Exporting table: " \o queries[Len(queries)][2]

\* the foreign-key query of the second of two tables failed
C10_Witness ==
    /\ pc = "exited"
    /\ exc = DbError("query failed")
    /\ tables = << "orders", "users" >>
    /\ Len(queries) = 8
    /\ queries[5] = <<"indexes", "orders">>
    /\ queries[8] = <<"foreign_keys", "users">>
    /\ ProgressLines = << "Exporting table: orders", "Exporting table: users" >>

(* ------------------- properties: the destination file ------------------ *)
\* the connection or a catalog query of this run failed
QueryFailed ==
    /\ exc.kind # "none"
    /\ exc.msg \in { "could not connect to server", "query failed",
                     "unsupported format character" }

\* every listed table has had its last query, the index query
QueriesComplete ==
    /\ Len(queries) >= 1
    /\ \A k \in 1..Len(tables) : <<"indexes", tables[k]>> \in Lines(queries)

\* the destination file is as this run found it: as it was before the first
\* run, or as the completed first run wrote it
FileUntouched ==
    IF rerun /\ output_file
    THEN file = Some(Join(prev_content, "\n"))
    ELSE file \in { None, Some("-- old") }

SuccessMessage ==
    "Successfully exported DDL for " \o ToString(Len(tables)) \o " tables."

\* C11: the destination file is opened and written only after every catalog
\* query for every table has completed successfully; if the connection or any
\* catalog query fails, the file is left as the run found it (not created, not
\* truncated) and the `Successfully exported DDL` message is not printed.
C11_FileUntouchedOnFailure ==
    /\ ~FileUntouched => (output_file /\ QueriesComplete /\ ~QueryFailed)
    /\ pc \in { "fwrite", "close" } => (QueriesComplete /\ exc.kind = "none")
    /\ QueryFailed =>
          /\ FileUntouched
          /\ \A i \in 1..Len(stdout) :
                ~(Len(stdout[i]) >= 26
                  /\ SubSeq(stdout[i], 1, 26) = "Successfully exported DDL ")
    /\ SuccessMessage \in Lines(stdout) => (QueriesComplete /\ ~QueryFailed)

\* with --output-file given and the file present, the index query of the
\* last of two tables failed and the file still holds its old content
C11_Witness ==
    /\ pc = "exited"
    /\ output_file
    /\ exc = DbError("query failed")
    /\ tables = << "orders", "users" >>
    /\ queries[Len(queries)] = <<"indexes", "users">>
    /\ file = Some("-- old")
    /\ exit_code = Some(1)

(* ===================== properties: export_schema.py ===================== *)
\* C8: export_schema returns True if and only if the export succeeded, so main
\* exits with code 0 only after a successful pg_dump run and with code 1 when
\* the dump command fails with a non-zero status.
C8_ExitReflectsDump ==
    pg_pc = "exited" =>
        /\ pg_success = Some(TRUE) <=> pg_status = Some(0)
        /\ pg_exit_code = Some(0) <=> pg_status = Some(0)

====
